---- MODULE Spec2Model ----
(***************************************************************************)
(* Model of src/main.py: the TelegramBot of deutsch-sprechen-bot.          *)
(*                                                                         *)
(* The bot holds two fields shared by every chat (conversation_mode and    *)
(* last_audio_response) and runs one coroutine per inbound update.  A      *)
(* coroutine runs without interruption from one await to the next, so one  *)
(* action of the model is "the await a handler is suspended on completes,  *)
(* and the handler runs on to its next await".  pc[c] names the await the  *)
(* handler of chat c is suspended on.  A provider call (the four OpenAI    *)
(* adapters) is recorded in calls[c] when it is started and either returns *)
(* a value drawn from a small set or raises.  Calls to the chat platform   *)
(* (reply_text, reply_voice, delete, get_file) are taken to succeed.       *)
(***************************************************************************)
EXTENDS Naturals, Sequences, FiniteSets

VARIABLES
    conversation_mode,    \* TelegramBot.conversation_mode
    last_audio_response,  \* TelegramBot.last_audio_response
    pc,                   \* per chat: the await its handler is suspended on
    ev,                   \* per chat: the update being handled
    loc,                  \* per chat: the handler's local variables
    sent,                 \* per chat: messages delivered during this update
    deleted,              \* per chat: kinds of messages deleted during this update
    calls,                \* per chat: provider calls made during this update
    outcome,              \* per chat: how the handler of this update ended
    started,              \* number of updates dispatched so far
    environ,              \* os.environ: the two secrets main() reads
    application,          \* the process: not yet built, polling, or failed
    hist                  \* history: the last mode switch and the last synthesis

vars == <<conversation_mode, last_audio_response, pc, ev, loc, sent, deleted,
          calls, outcome, started, environ, application, hist>>

----------------------------------------------------------------------------
(* Bounds and value sets *)

\* Updates dispatched in one behaviour.
MaxEvents == 3

\* The chats that talk to the one bot process.
Chats == {"chatA", "chatB"}

\* What the providers may return.
Transcripts == {"Hallo", "Wie geht es"}
Responses == {"Guten Tag", "Mir geht es gut"}
Digests == {"drei Woerter"}
AudioBuffers == {"mp3_1", "mp3_2"}

None == "None"
EmptyBytes == ""
Pending == "pending"
Raised == "raised"

Modes == {"default", "conversation", "transcription"}

\* The file a chat's voice message is downloaded to.
VoiceFile(c) == IF c = "chatA" THEN "voiceA.oga" ELSE "voiceB.oga"

----------------------------------------------------------------------------
(* update.message.text.lower().strip(); a text is a sequence of characters *)

Whitespace == {" ", "\n", "\t"}

UpperChars == <<"G", "E", "S", "P", "R", "Ä", "C", "H", "M", "O", "D", "U",
                "T", "A", "N", "K", "I", "B", "L">>
LowerChars == <<"g", "e", "s", "p", "r", "ä", "c", "h", "m", "o", "d", "u",
                "t", "a", "n", "k", "i", "b", "l">>

LowerChar(ch) ==
    IF \E i \in 1..Len(UpperChars) : UpperChars[i] = ch
    THEN LowerChars[CHOOSE i \in 1..Len(UpperChars) : UpperChars[i] = ch]
    ELSE ch

Lower(s) == [i \in 1..Len(s) |-> LowerChar(s[i])]

RECURSIVE LStrip(_)
LStrip(s) ==
    IF s # <<>> /\ Head(s) \in Whitespace THEN LStrip(Tail(s)) ELSE s

RECURSIVE RStrip(_)
RStrip(s) ==
    IF s # <<>> /\ s[Len(s)] \in Whitespace
    THEN RStrip(SubSeq(s, 1, Len(s) - 1))
    ELSE s

Strip(s) == RStrip(LStrip(s))

NormalizeText(raw) == Strip(Lower(raw))

Gespraechsmodus ==
    <<"g", "e", "s", "p", "r", "ä", "c", "h", "s", "m", "o", "d", "u", "s">>
Transkriptionsmodus ==
    <<"t", "r", "a", "n", "s", "k", "r", "i", "p", "t", "i", "o", "n", "s",
      "m", "o", "d", "u", "s">>
Transkribieren ==
    <<"t", "r", "a", "n", "s", "k", "r", "i", "b", "i", "e", "r", "e", "n">>

\* The texts users send.
RawTexts == {
    Gespraechsmodus,
    <<" ", "G", "E", "S", "P", "R", "Ä", "C", "H", "S", "M", "O", "D", "U", "S", "\n">>,
    <<"g", "e", "s", "p", "r", "ä", "c", "h", "s", " ", "m", "o", "d", "u", "s">>,
    Transkriptionsmodus,
    <<"T", "r", "a", "n", "s", "k", "r", "i", "p", "t", "i", "o", "n", "s",
      "M", "o", "d", "u", "s", " ">>,
    Transkribieren,
    <<"\t", "T", "r", "a", "n", "s", "k", "r", "i", "b", "i", "e", "r", "e", "n">>,
    <<"H", "a", "l", "l", "o">>
}

\* Variant: the test always passes.
Truthy_Always(buf) == TRUE

\* if self.last_audio_response:
Truthy(buf) == buf # None /\ buf # EmptyBytes

----------------------------------------------------------------------------
(* Helpers on the per-update records *)

\* flow is the branch of handle_voice's if/elif chain that was taken;
\* mode_at_call is the mode when the transcription of the voice file started.
NoLocals == [transcript |-> None, german_response |-> None,
             audio_response |-> None, word_translations |-> None,
             last_audio_transcript |-> None, flow |-> None,
             mode_at_call |-> None]

\* An update: its kind, the raw text of a text message, and the two fields as
\* handle_message found them on entry (None for the other handlers).
Event(kind, raw, mode, stored) ==
    [kind |-> kind, raw |-> raw, mode_before |-> mode, stored_before |-> stored]

NoEvent == Event("none", <<>>, None, None)

Msg(kind, body) == [kind |-> kind, body |-> body]

Call(fn, arg) == [fn |-> fn, arg |-> arg, res |-> Pending]

\* The last call of chat c returns r (a value, or Raised).
Returned(c, r) == [calls EXCEPT ![c][Len(calls[c])].res = r]

InFlight(c) == {i \in 1..Len(calls[c]) : calls[c][i].res = Pending}

\* The history: which chat's command last switched the mode, and which
\* chat's cycle last had a synthesis return, with the buffer it returned.
NoSwitch == [chat |-> None, text |-> <<>>]
NoSynthesis == [chat |-> None, audio |-> None]
NoHistory == [switch |-> NoSwitch, synthesis |-> NoSynthesis]

\* The environment with both secrets set.
Secrets == [TELEGRAM_BOT_TOKEN |-> "token", OPENAI_API_KEY |-> "key"]

Process == <<environ, application>>

----------------------------------------------------------------------------
(* State after construction: TelegramBot.__init__ *)

Init ==
    /\ conversation_mode = "default"
    /\ last_audio_response = None
    /\ pc = [c \in Chats |-> "idle"]
    /\ ev = [c \in Chats |-> NoEvent]
    /\ loc = [c \in Chats |-> NoLocals]
    /\ sent = [c \in Chats |-> <<>>]
    /\ deleted = [c \in Chats |-> {}]
    /\ calls = [c \in Chats |-> <<>>]
    /\ outcome = [c \in Chats |-> "none"]
    /\ started = 0
    /\ environ = Secrets
    /\ application = "polling"
    /\ hist = NoHistory

\* A handler is entered for a new update of chat c: the application built
\* by TelegramBot.__init__ is polling.
Enter(c, e) ==
    /\ application = "polling"
    /\ pc[c] = "idle"
    /\ started < MaxEvents
    /\ started' = started + 1
    /\ ev' = [ev EXCEPT ![c] = e]
    /\ outcome' = [outcome EXCEPT ![c] = "running"]

\* The handler of chat c returns to the framework.
Finish(c, how) ==
    /\ pc' = [pc EXCEPT ![c] = "done"]
    /\ outcome' = [outcome EXCEPT ![c] = how]

Shared == <<conversation_mode, last_audio_response>>

----------------------------------------------------------------------------
(* start_command, help_command *)

StartCommand(c) ==
    /\ Enter(c, Event("/start", <<>>, None, None))
    /\ pc' = [pc EXCEPT ![c] = "start_reply"]
    /\ UNCHANGED <<Shared, Process, hist, loc, sent, deleted, calls>>

StartCommandReplied(c) ==
    /\ pc[c] = "start_reply"
    /\ sent' = [sent EXCEPT ![c] = Append(@, Msg("start", <<>>))]
    /\ Finish(c, "completed")
    /\ UNCHANGED <<Shared, Process, hist, ev, loc, deleted, calls, started>>

HelpCommand(c) ==
    /\ Enter(c, Event("/help", <<>>, None, None))
    /\ pc' = [pc EXCEPT ![c] = "help_reply"]
    /\ UNCHANGED <<Shared, Process, hist, loc, sent, deleted, calls>>

HelpCommandReplied(c) ==
    /\ pc[c] = "help_reply"
    /\ sent' = [sent EXCEPT ![c] = Append(@, Msg("help", <<>>))]
    /\ Finish(c, "completed")
    /\ UNCHANGED <<Shared, Process, hist, ev, loc, deleted, calls, started>>

----------------------------------------------------------------------------
(* handle_message *)

\* Variant: "gesprächsmodus" toggles between the two modes.
ModeAfterText_Toggle(text, mode) ==
    IF text = Gespraechsmodus
    THEN IF mode = "conversation" THEN "default" ELSE "conversation"
    ELSE IF text = Transkriptionsmodus THEN "default"
    ELSE mode

\* Variant: "transkriptionsmodus" enters the transcription mode.
ModeAfterText_Transcription(text, mode) ==
    IF text = Gespraechsmodus THEN "conversation"
    ELSE IF text = Transkriptionsmodus THEN "transcription"
    ELSE mode

\* Variant: "transkribieren" also returns to the default mode.
ModeAfterText_TranskribierenResets(text, mode) ==
    IF text = Gespraechsmodus THEN "conversation"
    ELSE IF text \in {Transkriptionsmodus, Transkribieren} THEN "default"
    ELSE mode

\* The mode handle_message leaves for a normalised text.
ModeAfterText(text, mode) ==
    IF text = Gespraechsmodus THEN "conversation"
    ELSE IF text = Transkriptionsmodus THEN "default"
    ELSE mode

\* The await handle_message first suspends on.
MessageBranch(text, stored) ==
    IF text = Gespraechsmodus THEN "m_confirm_conversation"
    ELSE IF text = Transkriptionsmodus THEN "m_confirm_default"
    ELSE IF text = Transkribieren
         THEN IF Truthy(stored) THEN "m_transcribe" ELSE "m_no_audio"
    ELSE "m_instruction"

\* The static reply sent at each reply_text of handle_message.
MessageReply(p) ==
    CASE p = "m_confirm_conversation" -> Msg("gespraechsmodus_aktiviert", <<>>)
      [] p = "m_confirm_default" -> Msg("zurueck_zum_standardmodus", <<>>)
      [] p = "m_no_audio" -> Msg("keine_vorherige_audioantwort", <<>>)
      [] p = "m_instruction" -> Msg("bitte_sprachnachricht", <<>>)

\* The reply that carries the transcription of the stored audio.
RetranscriptReply(l) ==
    Msg("transkription_der_letzten_audioantwort", <<l.last_audio_transcript>>)

\* Variant: the temporary file is read before the write reached it.
RetranscribeInput_Unwritten(stored) == EmptyBytes

\* The content of the temporary file handed to transcribe_audio.
RetranscribeInput(stored) == stored

HandleMessage(c, raw) ==
    LET text == NormalizeText(raw)
        branch == MessageBranch(text, last_audio_response)
    IN  /\ Enter(c, Event("text", raw, conversation_mode,
                           IF text = Transkribieren THEN last_audio_response ELSE None))
        /\ conversation_mode' = ModeAfterText(text, conversation_mode)
        /\ pc' = [pc EXCEPT ![c] = branch]
        /\ calls' = [calls EXCEPT ![c] =
                        IF branch = "m_transcribe"
                        THEN Append(@, Call("transcribe",
                                            RetranscribeInput(last_audio_response)))
                        ELSE @]
        /\ hist' = IF text \in {Gespraechsmodus, Transkriptionsmodus}
                   THEN [hist EXCEPT !.switch = [chat |-> c, text |-> text]]
                   ELSE hist
        /\ UNCHANGED <<last_audio_response, Process, loc, sent, deleted>>

HandleMessageReplied(c) ==
    /\ pc[c] \in {"m_confirm_conversation", "m_confirm_default", "m_no_audio",
                  "m_instruction"}
    /\ sent' = [sent EXCEPT ![c] = Append(@, MessageReply(pc[c]))]
    /\ Finish(c, "completed")
    /\ UNCHANGED <<Shared, Process, hist, ev, loc, deleted, calls, started>>

HandleMessageTranscribed(c, t) ==
    /\ pc[c] = "m_transcribe"
    /\ calls' = Returned(c, t)
    /\ loc' = [loc EXCEPT ![c].last_audio_transcript = t]
    /\ pc' = [pc EXCEPT ![c] = "m_retranscript"]
    /\ UNCHANGED <<Shared, Process, hist, ev, sent, deleted, outcome, started>>

\* Variant: handle_message catches the failure and sends the apology.
HandleMessageTranscribeRaised_Apology(c) ==
    /\ pc[c] = "m_transcribe"
    /\ calls' = Returned(c, Raised)
    /\ sent' = [sent EXCEPT ![c] = Append(@, Msg("apology", <<>>))]
    /\ Finish(c, "apology")
    /\ UNCHANGED <<Shared, Process, hist, ev, loc, deleted, started>>

\* transcribe_audio re-raises; nothing in handle_message catches it, so the
\* framework hands the exception to error_handler, which logs.
HandleMessageTranscribeRaised(c) ==
    /\ pc[c] = "m_transcribe"
    /\ calls' = Returned(c, Raised)
    /\ Finish(c, "uncaught")
    /\ UNCHANGED <<Shared, Process, hist, ev, loc, sent, deleted, started>>

\* Variant: the stored audio is cleared once it has been transcribed.
HandleMessageRetranscriptReplied_Clears(c) ==
    /\ pc[c] = "m_retranscript"
    /\ sent' = [sent EXCEPT ![c] = Append(@, RetranscriptReply(loc[c]))]
    /\ last_audio_response' = None
    /\ Finish(c, "completed")
    /\ UNCHANGED <<conversation_mode, Process, hist, ev, loc, deleted, calls, started>>

HandleMessageRetranscriptReplied(c) ==
    /\ pc[c] = "m_retranscript"
    /\ sent' = [sent EXCEPT ![c] = Append(@, RetranscriptReply(loc[c]))]
    /\ Finish(c, "completed")
    /\ UNCHANGED <<Shared, Process, hist, ev, loc, deleted, calls, started>>

----------------------------------------------------------------------------
(* handle_voice *)

\* Variant: the transcription mode runs the conversation handler.
Dispatch_TranscriptionAsConversation(mode) ==
    CASE mode = "default" -> "v_delete_default"
      [] mode = "conversation" -> "v_delete_conversation"
      [] mode = "transcription" -> "v_delete_conversation"
      [] OTHER -> "done"

\* The if/elif chain on self.conversation_mode after the transcription: the
\* delete it suspends on next, or the end of the handler when no branch matches.
Dispatch(mode) ==
    CASE mode = "default" -> "v_delete_default"
      [] mode = "conversation" -> "v_delete_conversation"
      [] mode = "transcription" -> "v_delete_transcription"
      [] OTHER -> "done"

\* An adapter raised inside the try block: the except clause logs and
\* suspends on the reply_text of the apology.
Except(c) ==
    /\ calls' = Returned(c, Raised)
    /\ pc' = [pc EXCEPT ![c] = "v_apology"]

\* The last call returns r and the next adapter is called.
ReturnedThenCall(c, r, fn, arg) ==
    [calls EXCEPT ![c] = Append([@ EXCEPT ![Len(@)].res = r], Call(fn, arg))]

HandleVoice(c) ==
    /\ Enter(c, Event("voice", <<>>, None, None))
    /\ pc' = [pc EXCEPT ![c] = "v_notice"]
    /\ UNCHANGED <<Shared, Process, hist, loc, sent, deleted, calls>>

VoiceNoticeSent(c) ==
    /\ pc[c] = "v_notice"
    /\ sent' = [sent EXCEPT ![c] = Append(@, Msg("processing_voice", <<>>))]
    /\ pc' = [pc EXCEPT ![c] = "v_download"]
    /\ UNCHANGED <<Shared, Process, hist, ev, loc, deleted, calls, outcome, started>>

VoiceDownloaded(c) ==
    /\ pc[c] = "v_download"
    /\ calls' = [calls EXCEPT ![c] = Append(@, Call("transcribe", VoiceFile(c)))]
    /\ loc' = [loc EXCEPT ![c].mode_at_call = conversation_mode]
    /\ pc' = [pc EXCEPT ![c] = "v_transcribe"]
    /\ UNCHANGED <<Shared, Process, hist, ev, sent, deleted, outcome, started>>

\* Variant: the dispatch uses the mode read when the transcription started.
VoiceTranscribed_ModeReadEarly(c, t) ==
    /\ pc[c] = "v_transcribe"
    /\ calls' = Returned(c, t)
    /\ loc' = [loc EXCEPT ![c].transcript = t, ![c].flow = loc[c].mode_at_call]
    /\ pc' = [pc EXCEPT ![c] = Dispatch(loc[c].mode_at_call)]
    /\ outcome' = [outcome EXCEPT ![c] =
                      IF Dispatch(loc[c].mode_at_call) = "done" THEN "completed" ELSE @]
    /\ UNCHANGED <<Shared, Process, hist, ev, sent, deleted, started>>

VoiceTranscribed(c, t) ==
    /\ pc[c] = "v_transcribe"
    /\ calls' = Returned(c, t)
    /\ loc' = [loc EXCEPT ![c].transcript = t, ![c].flow = conversation_mode]
    /\ pc' = [pc EXCEPT ![c] = Dispatch(conversation_mode)]
    /\ outcome' = [outcome EXCEPT ![c] =
                      IF Dispatch(conversation_mode) = "done" THEN "completed" ELSE @]
    /\ UNCHANGED <<Shared, Process, hist, ev, sent, deleted, started>>

\* Variant: a failed transcription is tried again.
VoiceTranscribeRaised_Retry(c) ==
    /\ pc[c] = "v_transcribe"
    /\ calls' = ReturnedThenCall(c, Raised, "transcribe", VoiceFile(c))
    /\ UNCHANGED <<Shared, Process, hist, ev, loc, sent, deleted, outcome, started, pc>>

VoiceTranscribeRaised(c) ==
    /\ pc[c] = "v_transcribe"
    /\ Except(c)
    /\ UNCHANGED <<Shared, Process, hist, ev, loc, sent, deleted, outcome, started>>

\* Variant: the mode's handler is entered without the delete.
VoiceNoticeDeleted_Kept(c) ==
    /\ pc[c] \in {"v_delete_default", "v_delete_conversation", "v_delete_transcription"}
    /\ pc' = [pc EXCEPT ![c] =
                 CASE pc[c] = "v_delete_default" -> "d_notice"
                   [] pc[c] = "v_delete_conversation" -> "c_generate"
                   [] pc[c] = "v_delete_transcription" -> "t_reply"]
    /\ calls' = [calls EXCEPT ![c] =
                    IF pc[c] = "v_delete_conversation"
                    THEN Append(@, Call("generate", loc[c].transcript))
                    ELSE @]
    /\ UNCHANGED <<Shared, Process, hist, ev, loc, sent, deleted, outcome, started>>

\* processing_message.delete() completes and the mode's handler is entered.
VoiceNoticeDeleted(c) ==
    /\ pc[c] \in {"v_delete_default", "v_delete_conversation", "v_delete_transcription"}
    /\ deleted' = [deleted EXCEPT ![c] = @ \cup {"processing_voice"}]
    /\ pc' = [pc EXCEPT ![c] =
                 CASE pc[c] = "v_delete_default" -> "d_notice"
                   [] pc[c] = "v_delete_conversation" -> "c_generate"
                   [] pc[c] = "v_delete_transcription" -> "t_reply"]
    /\ calls' = [calls EXCEPT ![c] =
                    IF pc[c] = "v_delete_conversation"
                    THEN Append(@, Call("generate", loc[c].transcript))
                    ELSE @]
    /\ UNCHANGED <<Shared, Process, hist, ev, loc, sent, outcome, started>>

VoiceApologySent(c) ==
    /\ pc[c] = "v_apology"
    /\ sent' = [sent EXCEPT ![c] = Append(@, Msg("apology", <<>>))]
    /\ Finish(c, "apology")
    /\ UNCHANGED <<Shared, Process, hist, ev, loc, deleted, calls, started>>

----------------------------------------------------------------------------
(* handle_default_mode *)

\* Variant: the second extraction is given the transcript again.
SecondExtractionArg_Transcript(l) == l.transcript

\* The text extract_word_translations is called with, first and second time.
FirstExtractionArg(l) == l.transcript
SecondExtractionArg(l) == l.german_response

\* The messages of the full analysis.
FrageTranskription(l) == Msg("frage_transkription", <<l.transcript>>)
\* Variant: the attachment is read back from the shared field when it is sent.
DefaultVoice_Stored(l, stored) == Msg("voice", <<stored>>)

\* audio_response is the local bound at main.py:131; stored is the shared
\* field at the time of the send, which reply_voice does not read.
DefaultVoice(l, stored) == Msg("voice", <<l.audio_response>>)
AntwortTranskription(l) ==
    Msg("antwort_transkription", <<l.german_response, l.word_translations>>)

DefaultNoticeSent(c) ==
    /\ pc[c] = "d_notice"
    /\ sent' = [sent EXCEPT ![c] = Append(@, Msg("processing_response", <<>>))]
    /\ calls' = [calls EXCEPT ![c] =
                    Append(@, Call("extract", FirstExtractionArg(loc[c])))]
    /\ pc' = [pc EXCEPT ![c] = "d_extract_transcript"]
    /\ UNCHANGED <<Shared, Process, hist, ev, loc, deleted, outcome, started>>

DefaultTranscriptExtracted(c, d) ==
    /\ pc[c] = "d_extract_transcript"
    /\ loc' = [loc EXCEPT ![c].word_translations = d]
    /\ calls' = ReturnedThenCall(c, d, "generate", loc[c].transcript)
    /\ pc' = [pc EXCEPT ![c] = "d_generate"]
    /\ UNCHANGED <<Shared, Process, hist, ev, sent, deleted, outcome, started>>

\* Variant: the synthesis and the second extraction are started together.
DefaultGenerated_Gather(c, g) ==
    /\ pc[c] = "d_generate"
    /\ loc' = [loc EXCEPT ![c].german_response = g]
    /\ calls' = [calls EXCEPT ![c] =
                    Append(Append([@ EXCEPT ![Len(@)].res = g],
                                  Call("synthesize", g)),
                           Call("extract", g))]
    /\ pc' = [pc EXCEPT ![c] = "d_synthesize"]
    /\ UNCHANGED <<Shared, Process, hist, ev, sent, deleted, outcome, started>>

DefaultGenerated(c, g) ==
    /\ pc[c] = "d_generate"
    /\ loc' = [loc EXCEPT ![c].german_response = g]
    /\ calls' = ReturnedThenCall(c, g, "synthesize", g)
    /\ pc' = [pc EXCEPT ![c] = "d_synthesize"]
    /\ UNCHANGED <<Shared, Process, hist, ev, sent, deleted, outcome, started>>

DefaultSynthesized(c, a) ==
    /\ pc[c] = "d_synthesize"
    /\ loc' = [loc EXCEPT ![c].audio_response = a]
    /\ calls' = Returned(c, a)
    /\ last_audio_response' = a
    /\ pc' = [pc EXCEPT ![c] = "d_send_transcript"]
    /\ hist' = [hist EXCEPT !.synthesis = [chat |-> c, audio |-> a]]
    /\ UNCHANGED <<conversation_mode, Process, ev, sent, deleted, outcome, started>>

DefaultTranscriptSent(c) ==
    /\ pc[c] = "d_send_transcript"
    /\ sent' = [sent EXCEPT ![c] = Append(@, FrageTranskription(loc[c]))]
    /\ pc' = [pc EXCEPT ![c] = "d_delete"]
    /\ UNCHANGED <<Shared, Process, hist, ev, loc, deleted, calls, outcome, started>>

DefaultNoticeDeleted(c) ==
    /\ pc[c] = "d_delete"
    /\ deleted' = [deleted EXCEPT ![c] = @ \cup {"processing_response"}]
    /\ pc' = [pc EXCEPT ![c] = "d_voice"]
    /\ UNCHANGED <<Shared, Process, hist, ev, loc, sent, calls, outcome, started>>

DefaultVoiceSent(c) ==
    /\ pc[c] = "d_voice"
    /\ sent' = [sent EXCEPT ![c] =
                   Append(@, DefaultVoice(loc[c], last_audio_response))]
    /\ calls' = [calls EXCEPT ![c] =
                    Append(@, Call("extract", SecondExtractionArg(loc[c])))]
    /\ pc' = [pc EXCEPT ![c] = "d_extract_response"]
    /\ UNCHANGED <<Shared, Process, hist, ev, loc, deleted, outcome, started>>

DefaultResponseExtracted(c, d) ==
    /\ pc[c] = "d_extract_response"
    /\ loc' = [loc EXCEPT ![c].word_translations = d]
    /\ calls' = Returned(c, d)
    /\ pc' = [pc EXCEPT ![c] = "d_reply"]
    /\ UNCHANGED <<Shared, Process, hist, ev, sent, deleted, outcome, started>>

\* Variant: a failure inside handle_default_mode discards the stored audio.
DefaultAdapterRaised_Clears(c) ==
    /\ pc[c] \in {"d_extract_transcript", "d_generate", "d_synthesize",
                  "d_extract_response"}
    /\ Except(c)
    /\ last_audio_response' = None
    /\ UNCHANGED <<conversation_mode, Process, hist, ev, loc, sent, deleted,
                   outcome, started>>

\* extract_word_translations, generate_german_response or
\* generate_audio_response re-raises inside handle_default_mode.
DefaultAdapterRaised(c) ==
    /\ pc[c] \in {"d_extract_transcript", "d_generate", "d_synthesize",
                  "d_extract_response"}
    /\ Except(c)
    /\ UNCHANGED <<Shared, Process, hist, ev, loc, sent, deleted, outcome, started>>

----------------------------------------------------------------------------
(* handle_conversation_mode, handle_transcription_mode *)

\* Variant: the text reply echoes the transcript.
ConversationReply_Transcript(l) == Msg("transkription", <<l.transcript>>)

ConversationVoice(l, stored) == Msg("voice", <<l.audio_response>>)
ConversationReply(l) == Msg("transkription", <<l.german_response>>)
TranscriptionReply(l) == Msg("transcription", <<l.transcript>>)

ConversationGenerated(c, g) ==
    /\ pc[c] = "c_generate"
    /\ loc' = [loc EXCEPT ![c].german_response = g]
    /\ calls' = ReturnedThenCall(c, g, "synthesize", g)
    /\ pc' = [pc EXCEPT ![c] = "c_synthesize"]
    /\ UNCHANGED <<Shared, Process, hist, ev, sent, deleted, outcome, started>>

ConversationSynthesized(c, a) ==
    /\ pc[c] = "c_synthesize"
    /\ loc' = [loc EXCEPT ![c].audio_response = a]
    /\ calls' = Returned(c, a)
    /\ last_audio_response' = a
    /\ pc' = [pc EXCEPT ![c] = "c_voice"]
    /\ hist' = [hist EXCEPT !.synthesis = [chat |-> c, audio |-> a]]
    /\ UNCHANGED <<conversation_mode, Process, ev, sent, deleted, outcome, started>>

ConversationVoiceSent(c) ==
    /\ pc[c] = "c_voice"
    /\ sent' = [sent EXCEPT ![c] =
                   Append(@, ConversationVoice(loc[c], last_audio_response))]
    /\ pc' = [pc EXCEPT ![c] = "c_reply"]
    /\ UNCHANGED <<Shared, Process, hist, ev, loc, deleted, calls, outcome, started>>

ConversationAdapterRaised(c) ==
    /\ pc[c] \in {"c_generate", "c_synthesize"}
    /\ Except(c)
    /\ UNCHANGED <<Shared, Process, hist, ev, loc, sent, deleted, outcome, started>>

\* The last reply_text of the mode's handler completes; the handler and
\* handle_voice return.
ModeReply(p, l) ==
    CASE p = "d_reply" -> AntwortTranskription(l)
      [] p = "c_reply" -> ConversationReply(l)
      [] p = "t_reply" -> TranscriptionReply(l)

ModeHandlerReplied(c) ==
    /\ pc[c] \in {"d_reply", "c_reply", "t_reply"}
    /\ sent' = [sent EXCEPT ![c] = Append(@, ModeReply(pc[c], loc[c]))]
    /\ Finish(c, "completed")
    /\ UNCHANGED <<Shared, Process, hist, ev, loc, deleted, calls, started>>

----------------------------------------------------------------------------
(* The framework takes the next update of a chat whose handler has returned *)

Return(c) ==
    /\ pc[c] = "done"
    /\ pc' = [pc EXCEPT ![c] = "idle"]
    /\ ev' = [ev EXCEPT ![c] = NoEvent]
    /\ loc' = [loc EXCEPT ![c] = NoLocals]
    /\ sent' = [sent EXCEPT ![c] = <<>>]
    /\ deleted' = [deleted EXCEPT ![c] = {}]
    /\ calls' = [calls EXCEPT ![c] = <<>>]
    /\ outcome' = [outcome EXCEPT ![c] = "none"]
    /\ UNCHANGED <<Shared, Process, hist, started>>

Next ==
    \E c \in Chats :
        \/ StartCommand(c)
        \/ StartCommandReplied(c)
        \/ HelpCommand(c)
        \/ HelpCommandReplied(c)
        \/ \E raw \in RawTexts : HandleMessage(c, raw)
        \/ HandleMessageReplied(c)
        \/ \E t \in Transcripts : HandleMessageTranscribed(c, t)
        \/ HandleMessageTranscribeRaised(c)
        \/ HandleMessageRetranscriptReplied(c)
        \/ HandleVoice(c)
        \/ VoiceNoticeSent(c)
        \/ VoiceDownloaded(c)
        \/ \E t \in Transcripts : VoiceTranscribed(c, t)
        \/ VoiceTranscribeRaised(c)
        \/ VoiceNoticeDeleted(c)
        \/ VoiceApologySent(c)
        \/ DefaultNoticeSent(c)
        \/ \E d \in Digests : DefaultTranscriptExtracted(c, d)
        \/ \E g \in Responses : DefaultGenerated(c, g)
        \/ \E a \in AudioBuffers : DefaultSynthesized(c, a)
        \/ DefaultTranscriptSent(c)
        \/ DefaultNoticeDeleted(c)
        \/ DefaultVoiceSent(c)
        \/ \E d \in Digests : DefaultResponseExtracted(c, d)
        \/ DefaultAdapterRaised(c)
        \/ \E g \in Responses : ConversationGenerated(c, g)
        \/ \E a \in AudioBuffers : ConversationSynthesized(c, a)
        \/ ConversationVoiceSent(c)
        \/ ConversationAdapterRaised(c)
        \/ ModeHandlerReplied(c)
        \/ Return(c)

Spec == Init /\ [][Next]_vars

\* The handlers entered with the mode field holding any of the three values
\* that handle_voice's dispatch tests.
InitAnyMode ==
    /\ conversation_mode \in Modes
    /\ last_audio_response = None
    /\ pc = [c \in Chats |-> "idle"]
    /\ ev = [c \in Chats |-> NoEvent]
    /\ loc = [c \in Chats |-> NoLocals]
    /\ sent = [c \in Chats |-> <<>>]
    /\ deleted = [c \in Chats |-> {}]
    /\ calls = [c \in Chats |-> <<>>]
    /\ outcome = [c \in Chats |-> "none"]
    /\ started = 0
    /\ environ = Secrets
    /\ application = "polling"
    /\ hist = NoHistory

SpecAnyMode == InitAnyMode /\ [][Next]_vars

----------------------------------------------------------------------------
(* main *)

\* What os.getenv may return for a secret: unset, set but empty, or set.
TokenValues == {None, EmptyBytes, "token"}
KeyValues == {None, EmptyBytes, "key"}

\* Variant: only the Telegram token is required.
Main_TokenOnly ==
    /\ application = "starting"
    /\ application' = IF ~Truthy(environ.TELEGRAM_BOT_TOKEN)
                      THEN "failed" ELSE "polling"
    /\ UNCHANGED <<Shared, environ, hist, pc, ev, loc, sent, deleted, calls,
                   outcome, started>>

\* main() raises ValueError when a secret is missing, and otherwise builds
\* the bot (__init__, setup_handlers) and starts polling.
Main ==
    /\ application = "starting"
    /\ application' = IF ~Truthy(environ.TELEGRAM_BOT_TOKEN)
                         \/ ~Truthy(environ.OPENAI_API_KEY)
                      THEN "failed" ELSE "polling"
    /\ UNCHANGED <<Shared, environ, hist, pc, ev, loc, sent, deleted, calls,
                   outcome, started>>

\* The process before main() has run, in any environment.
InitMain ==
    /\ conversation_mode = "default"
    /\ last_audio_response = None
    /\ pc = [c \in Chats |-> "idle"]
    /\ ev = [c \in Chats |-> NoEvent]
    /\ loc = [c \in Chats |-> NoLocals]
    /\ sent = [c \in Chats |-> <<>>]
    /\ deleted = [c \in Chats |-> {}]
    /\ calls = [c \in Chats |-> <<>>]
    /\ outcome = [c \in Chats |-> "none"]
    /\ started = 0
    /\ environ \in [TELEGRAM_BOT_TOKEN : TokenValues, OPENAI_API_KEY : KeyValues]
    /\ application = "starting"
    /\ hist = NoHistory

NextMain == Main \/ Next

SpecMain == InitMain /\ [][NextMain]_vars

----------------------------------------------------------------------------
(* The handlers when the calls to the chat platform may raise too *)

\* The awaits of handle_voice and of the mode handlers on a platform call
\* (reply_text, get_file and download_to_drive, delete, reply_voice); all of
\* them are inside the try block of handle_voice.
VoicePlatformAwaits ==
    {"v_notice", "v_download", "v_delete_default", "v_delete_conversation",
     "v_delete_transcription", "d_notice", "d_send_transcript", "d_delete",
     "d_voice", "d_reply", "c_voice", "c_reply", "t_reply"}

\* The awaits of start_command, help_command and handle_message on reply_text.
TextPlatformAwaits ==
    {"start_reply", "help_reply", "m_confirm_conversation", "m_confirm_default",
     "m_no_audio", "m_instruction", "m_retranscript"}

\* A platform call awaited inside the try block raises: the except clause
\* logs and suspends on the reply_text of the apology.
VoicePlatformRaised(c) ==
    /\ pc[c] \in VoicePlatformAwaits
    /\ pc' = [pc EXCEPT ![c] = "v_apology"]
    /\ UNCHANGED <<Shared, Process, hist, ev, loc, sent, deleted, calls, outcome, started>>

\* The reply_text of the apology raises inside the except clause: the
\* exception leaves handle_voice and error_handler logs it.
VoiceApologyRaised(c) ==
    /\ pc[c] = "v_apology"
    /\ Finish(c, "uncaught")
    /\ UNCHANGED <<Shared, Process, hist, ev, loc, sent, deleted, calls, started>>

\* A reply_text of a text or command handler raises: nothing catches it.
TextPlatformRaised(c) ==
    /\ pc[c] \in TextPlatformAwaits
    /\ Finish(c, "uncaught")
    /\ UNCHANGED <<Shared, Process, hist, ev, loc, sent, deleted, calls, started>>

\* The updates taken under the specification with fairness.
MaxPlatformEvents == 2

PlatformBudget == started' <= MaxPlatformEvents

NextPlatform ==
    \/ Next /\ PlatformBudget
    \/ \E c \in Chats :
          \/ VoicePlatformRaised(c)
          \/ VoiceApologyRaised(c)
          \/ TextPlatformRaised(c)

\* The call a handler is suspended on returns or raises, and the event loop
\* resumes the handler.
Resumed(c) ==
    \/ StartCommandReplied(c)
    \/ HelpCommandReplied(c)
    \/ HandleMessageReplied(c)
    \/ \E t \in Transcripts : HandleMessageTranscribed(c, t)
    \/ HandleMessageTranscribeRaised(c)
    \/ HandleMessageRetranscriptReplied(c)
    \/ VoiceNoticeSent(c)
    \/ VoiceDownloaded(c)
    \/ \E t \in Transcripts : VoiceTranscribed(c, t)
    \/ VoiceTranscribeRaised(c)
    \/ VoiceNoticeDeleted(c)
    \/ VoiceApologySent(c)
    \/ DefaultNoticeSent(c)
    \/ \E d \in Digests : DefaultTranscriptExtracted(c, d)
    \/ \E g \in Responses : DefaultGenerated(c, g)
    \/ \E a \in AudioBuffers : DefaultSynthesized(c, a)
    \/ DefaultTranscriptSent(c)
    \/ DefaultNoticeDeleted(c)
    \/ DefaultVoiceSent(c)
    \/ \E d \in Digests : DefaultResponseExtracted(c, d)
    \/ DefaultAdapterRaised(c)
    \/ \E g \in Responses : ConversationGenerated(c, g)
    \/ \E a \in AudioBuffers : ConversationSynthesized(c, a)
    \/ ConversationVoiceSent(c)
    \/ ConversationAdapterRaised(c)
    \/ ModeHandlerReplied(c)
    \/ VoicePlatformRaised(c)
    \/ VoiceApologyRaised(c)
    \/ TextPlatformRaised(c)

SpecPlatform ==
    Init /\ [][NextPlatform]_vars /\ \A c \in Chats : WF_vars(Resumed(c))

----------------------------------------------------------------------------
(* Vocabulary of the properties *)

VoiceCycle(c) == ev[c].kind = "voice"

TextOf(e) == NormalizeText(e.raw)

Fns(c) == [i \in 1..Len(calls[c]) |-> calls[c][i].fn]

Count(c, fn) == Cardinality({i \in 1..Len(calls[c]) : calls[c][i].fn = fn})

NoCallRaised(c) == \A i \in 1..Len(calls[c]) : calls[c][i].res # Raised

SomeCallRaised(c) == \E i \in 1..Len(calls[c]) : calls[c][i].res = Raised

\* The result of the one call of adapter fn in this cycle.
ResultOf(c, fn) ==
    calls[c][CHOOSE i \in 1..Len(calls[c]) : calls[c][i].fn = fn].res

\* The messages of this cycle that have not been deleted.
Standing(c) ==
    LET Stands(m) == m.kind \notin deleted[c]
    IN  SelectSeq(sent[c], Stands)

\* The messages sent by the mode's handler (all but handle_voice's notice).
ModeSpecific(c) ==
    LET NotNotice(m) == m.kind # "processing_voice"
    IN  SelectSeq(sent[c], NotNotice)

IsPrefix(s, t) == Len(s) <= Len(t) /\ s = SubSeq(t, 1, Len(s))

Moves(c) == pc'[c] # pc[c] /\ pc'[c] # "idle"

----------------------------------------------------------------------------
(* C1: whatever the mode was, handle_message given a text that lower-cased  *)
(* and stripped equals "gesprächsmodus" leaves the mode "conversation", and *)
(* given "transkriptionsmodus" leaves it "default"; when the handler        *)
(* returns it has sent exactly one message, the confirmation of the switch. *)

C1_Confirmation(text) ==
    IF text = Gespraechsmodus
    THEN Msg("gespraechsmodus_aktiviert", <<>>)
    ELSE Msg("zurueck_zum_standardmodus", <<>>)

C1_ModeSwitch ==
    [][\A c \in Chats :
        LET e == ev'[c]
            entered == pc[c] = "idle" /\ pc'[c] # "idle" /\ e.kind = "text"
            returned == pc[c] # "done" /\ pc'[c] = "done" /\ e.kind = "text"
        IN  /\ (entered /\ TextOf(e) = Gespraechsmodus)
                => conversation_mode' = "conversation"
            /\ (entered /\ TextOf(e) = Transkriptionsmodus)
                => conversation_mode' = "default"
            /\ (returned /\ TextOf(e) \in {Gespraechsmodus, Transkriptionsmodus})
                => sent'[c] = <<C1_Confirmation(TextOf(e))>>
            /\ (entered /\ TextOf(e) \in {Gespraechsmodus, Transkriptionsmodus})
                => sent'[c] = <<>>
    ]_vars

\* "  GESPRÄCHSMODUS\n" has been handled while the mode was already
\* "conversation", and the handler has returned.
C1_Witness ==
    \E c \in Chats :
        /\ pc[c] = "done"
        /\ ev[c].kind = "text"
        /\ ev[c].raw # TextOf(ev[c])
        /\ TextOf(ev[c]) = Gespraechsmodus
        /\ ev[c].mode_before = "conversation"
        /\ conversation_mode = "conversation"
        /\ Len(sent[c]) = 1

----------------------------------------------------------------------------
(* C2: a voice message dispatched in the default mode, none of whose        *)
(* provider calls raised, has made one transcription, one generation, one   *)
(* synthesis and two extraction calls when its handler returns: the first   *)
(* extraction on the transcript, the second on the generated reply.         *)

C2_DefaultCalls ==
    \A c \in Chats :
        (VoiceCycle(c) /\ loc[c].flow = "default" /\ pc[c] = "done"
            /\ NoCallRaised(c))
        => /\ Count(c, "transcribe") = 1
           /\ Count(c, "generate") = 1
           /\ Count(c, "synthesize") = 1
           /\ Count(c, "extract") = 2
           /\ \E i, j \in 1..Len(calls[c]) :
                /\ i < j
                /\ calls[c][i].fn = "extract"
                /\ calls[c][j].fn = "extract"
                /\ calls[c][i].arg = ResultOf(c, "transcribe")
                /\ calls[c][j].arg = ResultOf(c, "generate")

C2_Witness ==
    \E c \in Chats :
        /\ VoiceCycle(c) /\ loc[c].flow = "default" /\ pc[c] = "done"
        /\ NoCallRaised(c)
        /\ Count(c, "extract") = 2

----------------------------------------------------------------------------
(* C3: within one voice-handling cycle at most one provider call is in      *)
(* flight, each call is started only after every earlier call of the cycle  *)
(* has returned, and the calls come in this order: in the default mode      *)
(* transcribe, extract (on the transcript), generate, synthesize, extract   *)
(* (on the reply); in the conversation mode transcribe, generate,           *)
(* synthesize; in the transcription mode transcribe alone.                  *)

C3_Order(flow) ==
    CASE flow = "default" ->
            <<"transcribe", "extract", "generate", "synthesize", "extract">>
      [] flow = "conversation" -> <<"transcribe", "generate", "synthesize">>
      [] OTHER -> <<"transcribe">>

C3_Sequential ==
    \A c \in Chats :
        VoiceCycle(c)
        => /\ Cardinality(InFlight(c)) <= 1
           /\ \A i \in 1..Len(calls[c]) :
                i < Len(calls[c]) => calls[c][i].res \notin {Pending, Raised}
           /\ IsPrefix(Fns(c), C3_Order(loc[c].flow))

\* A default-mode cycle whose second extraction, its fifth call, is in flight.
C3_Witness ==
    \E c \in Chats :
        /\ VoiceCycle(c) /\ loc[c].flow = "default"
        /\ Len(calls[c]) = 5
        /\ InFlight(c) = {5}

\* The statement as first made: at most one call in flight, and in a
\* default-mode cycle no extraction is started before the generation and the
\* synthesis of that cycle have completed.
C3_ExtractionLast ==
    \A c \in Chats :
        VoiceCycle(c)
        => /\ Cardinality(InFlight(c)) <= 1
           /\ loc[c].flow = "default"
              => \A i \in 1..Len(calls[c]) :
                    calls[c][i].fn = "extract"
                    => \E j, k \in 1..(i - 1) :
                          /\ calls[c][j].fn = "generate"
                          /\ calls[c][j].res # Pending
                          /\ calls[c][k].fn = "synthesize"
                          /\ calls[c][k].res # Pending

----------------------------------------------------------------------------
(* C4: a voice message dispatched in the conversation mode makes no         *)
(* extraction call and never sends the transcript; when none of its calls   *)
(* raised, its handler returns having made exactly one transcription, one   *)
(* generation and one synthesis call, and having sent, after the notice of  *)
(* handle_voice, the synthesized voice and then one text with the reply.    *)

----------------------------------------------------------------------------
(* C5: a voice message dispatched while the mode is "transcription" makes   *)
(* the transcription call and no other provider call, its handler sends     *)
(* one text that carries the transcript and nothing else, and no step of    *)
(* the cycle changes last_audio_response.                                   *)

C5_Calls ==
    \A c \in Chats :
        (VoiceCycle(c) /\ loc[c].flow = "transcription")
        => /\ Fns(c) = <<"transcribe">>
           /\ IsPrefix(ModeSpecific(c),
                       <<Msg("transcription", <<ResultOf(c, "transcribe")>>)>>)
           /\ pc[c] = "done" => Len(ModeSpecific(c)) = 1

C5_Frame ==
    \A c \in Chats :
        (Moves(c) /\ ev'[c].kind = "voice"
            /\ loc'[c].flow \in {None, "transcription"})
        => last_audio_response' = last_audio_response

C5_TranscriptionOnly == []C5_Calls /\ [][C5_Frame]_vars

\* A transcription-mode cycle has returned; meanwhile another chat switched
\* the mode and stored a synthesized reply.
C5_Witness ==
    \E c \in Chats :
        /\ VoiceCycle(c) /\ loc[c].flow = "transcription"
        /\ pc[c] = "done"
        /\ Len(sent[c]) = 2
        /\ last_audio_response # None

----------------------------------------------------------------------------
(* C6: when the transcription call of a voice-handling cycle raises, the    *)
(* only message of the cycle left with the user once the handler has        *)
(* returned is the apology.                                                 *)

C6_OnlyApology ==
    \A c \in Chats :
        (VoiceCycle(c) /\ pc[c] = "done" /\ Len(calls[c]) = 1
            /\ calls[c][1].res = Raised)
        => Standing(c) = <<Msg("apology", <<>>)>>

----------------------------------------------------------------------------
(* C7: a voice-handling cycle in which a provider call raised has sent no   *)
(* transcript text, no voice attachment and no reply text.                  *)

C7_Output == {"frage_transkription", "voice", "antwort_transkription",
              "transkription", "transcription"}

C7_NoPartialOutput ==
    \A c \in Chats :
        (VoiceCycle(c) /\ SomeCallRaised(c))
        => \A i \in 1..Len(sent[c]) : sent[c][i].kind \notin C7_Output

----------------------------------------------------------------------------
(* C8: handle_message given "transkribieren" while last_audio_response is   *)
(* None makes no provider call, changes neither the mode nor                *)
(* last_audio_response, and returns having sent exactly the reply that      *)
(* there is no previous audio.                                              *)

C8_Case(e) ==
    e.kind = "text" /\ TextOf(e) = Transkribieren /\ e.stored_before = None

C8_NoPriorAudio ==
    [][\A c \in Chats :
        (Moves(c) /\ C8_Case(ev'[c]))
        => /\ pc[c] = "idle" => last_audio_response = None
           /\ calls'[c] = <<>>
           /\ conversation_mode' = conversation_mode
           /\ last_audio_response' = last_audio_response
           /\ sent'[c] = IF pc'[c] = "done"
                         THEN <<Msg("keine_vorherige_audioantwort", <<>>)>>
                         ELSE <<>>
    ]_vars

\* "\tTranskribieren" was handled before any synthesis had succeeded.
C8_Witness ==
    \E c \in Chats :
        /\ C8_Case(ev[c])
        /\ ev[c].raw # TextOf(ev[c])
        /\ pc[c] = "done"
        /\ Len(sent[c]) = 1

----------------------------------------------------------------------------
(* C9: handle_message given "transkribieren" while last_audio_response      *)
(* holds a buffer calls the transcription adapter exactly once, on the      *)
(* buffer stored when the handler was entered, also when another cycle      *)
(* overwrites last_audio_response before the call returns; when the call    *)
(* returns, the one reply carries its result; no step of the handler        *)
(* changes the mode or last_audio_response.                                 *)

C9_Case(e) ==
    e.kind = "text" /\ TextOf(e) = Transkribieren /\ Truthy(e.stored_before)

C9_Calls ==
    \A c \in Chats :
        C9_Case(ev[c])
        => /\ Len(calls[c]) = 1
           /\ calls[c][1].fn = "transcribe"
           /\ calls[c][1].arg = ev[c].stored_before
           /\ sent[c] =
                IF pc[c] = "done" /\ calls[c][1].res # Raised
                THEN <<Msg("transkription_der_letzten_audioantwort",
                           <<calls[c][1].res>>)>>
                ELSE <<>>

C9_Frame ==
    \A c \in Chats :
        (Moves(c) /\ C9_Case(ev'[c]))
        => /\ pc[c] = "idle" => ev'[c].stored_before = last_audio_response
           /\ conversation_mode' = conversation_mode
           /\ last_audio_response' = last_audio_response

C9_Retranscribe == []C9_Calls /\ [][C9_Frame]_vars

\* The reply has been sent, the transcribed buffer is the one stored on
\* entry, and last_audio_response has been overwritten by another cycle.
C9_Witness ==
    \E c \in Chats :
        /\ C9_Case(ev[c])
        /\ pc[c] = "done"
        /\ Len(sent[c]) = 1
        /\ calls[c][1].arg # last_audio_response

----------------------------------------------------------------------------
(* C10: in every reachable state the mode is "default" or "conversation",   *)
(* and no voice-handling cycle is dispatched to, or runs, the transcription *)
(* handler.                                                                 *)

C10_TwoModes ==
    /\ conversation_mode \in {"default", "conversation"}
    /\ \A c \in Chats :
        /\ loc[c].flow # "transcription"
        /\ pc[c] \notin {"v_delete_transcription", "t_reply"}
        /\ \A i \in 1..Len(sent[c]) : sent[c][i].kind # "transcription"

\* "Transkriptionsmodus " has been handled in the conversation mode while a
\* voice message of another chat, dispatched in the conversation mode, is
\* still being handled.
C10_Witness ==
    \E c, d \in Chats :
        /\ ev[c].kind = "text"
        /\ TextOf(ev[c]) = Transkriptionsmodus
        /\ ev[c].mode_before = "conversation"
        /\ pc[c] = "done"
        /\ conversation_mode = "default"
        /\ VoiceCycle(d) /\ loc[d].flow = "conversation"

----------------------------------------------------------------------------
(* C11: in every voice-handling cycle the processing notice is the first    *)
(* message, sent before the transcription call is started; it is deleted    *)
(* only once the transcription call has returned, and every reply of the    *)
(* mode's handler is sent after the notice has been deleted.                *)

C11_NoticeOrder ==
    \A c \in Chats :
        VoiceCycle(c)
        => /\ calls[c] # <<>>
              => /\ sent[c] # <<>>
                 /\ sent[c][1].kind = "processing_voice"
                 /\ calls[c][1].fn = "transcribe"
           /\ "processing_voice" \in deleted[c]
              => /\ calls[c] # <<>>
                 /\ calls[c][1].res \in Transcripts
           /\ (\E i \in 1..Len(sent[c]) :
                    sent[c][i].kind \notin {"processing_voice", "apology"})
              => "processing_voice" \in deleted[c]

\* The notice has been deleted and the mode's handler has replied.
C11_Witness ==
    \E c \in Chats :
        /\ VoiceCycle(c)
        /\ "processing_voice" \in deleted[c]
        /\ Len(sent[c]) >= 2
        /\ sent[c][2].kind # "apology"

----------------------------------------------------------------------------
(* C12: the two fields are shared by all chats.  A voice message is         *)
(* dispatched with the mode set by the last mode-switch command handled,    *)
(* whichever chat sent it, and "transkribieren" transcribes the buffer of   *)
(* the last synthesis that returned, whichever chat's cycle made it.        *)

C12_ModeOf(switch) ==
    IF switch.text = Gespraechsmodus THEN "conversation" ELSE "default"

C12_Dispatch ==
    \A c \in Chats :
        (pc[c] = "v_transcribe" /\ loc'[c].flow # None)
        => loc'[c].flow = C12_ModeOf(hist.switch)

C12_Stored ==
    \A c \in Chats :
        (pc[c] = "idle" /\ ev'[c].kind = "text"
            /\ TextOf(ev'[c]) = Transkribieren /\ hist.synthesis.chat # None)
        => /\ Len(calls'[c]) = 1
           /\ calls'[c][1].fn = "transcribe"
           /\ calls'[c][1].arg = hist.synthesis.audio

C12_SharedSession == [][C12_Dispatch /\ C12_Stored]_vars

\* Chat a switched to the conversation mode; chat b's voice message was
\* dispatched in that mode; chat a's "transkribieren" then transcribed the
\* reply synthesized for chat b.
C12_Witness ==
    \E a, b \in Chats :
        /\ a # b
        /\ hist.switch = [chat |-> a, text |-> Gespraechsmodus]
        /\ VoiceCycle(b) /\ loc[b].flow = "conversation"
        /\ hist.synthesis.chat = b
        /\ ev[a].kind = "text" /\ TextOf(ev[a]) = Transkribieren
        /\ pc[a] = "done"
        /\ Len(sent[a]) = 1
        /\ Len(calls[a]) = 1
        /\ calls[a][1].arg = loc[b].audio_response

----------------------------------------------------------------------------
(* C13: when either secret is unset or empty, main() fails: the application *)
(* never polls, and no update is ever dispatched to a handler.              *)

C13_SecretMissing ==
    ~Truthy(environ.TELEGRAM_BOT_TOKEN) \/ ~Truthy(environ.OPENAI_API_KEY)

C13_FatalStartup ==
    C13_SecretMissing
    => /\ application \in {"starting", "failed"}
       /\ started = 0
       /\ \A c \in Chats :
            pc[c] = "idle" /\ ev[c] = NoEvent /\ sent[c] = <<>> /\ calls[c] = <<>>

\* main() has raised with the Telegram token set and the OpenAI key unset.
C13_Witness ==
    /\ application = "failed"
    /\ environ.TELEGRAM_BOT_TOKEN = "token"
    /\ environ.OPENAI_API_KEY = None

----------------------------------------------------------------------------
(* C14: a step changes the mode only when it is handle_message being        *)
(* entered with a text that normalises to "gesprächsmodus" or               *)
(* "transkriptionsmodus"; the steps of /start, /help, "transkribieren",     *)
(* any other text and every voice-handling cycle leave the mode unchanged.  *)

C14_Switches(c) ==
    /\ pc[c] = "idle"
    /\ ev'[c].kind = "text"
    /\ TextOf(ev'[c]) \in {Gespraechsmodus, Transkriptionsmodus}

C14_ModeFrame ==
    [][/\ conversation_mode' # conversation_mode
          => \E c \in Chats : C14_Switches(c)
       /\ \A c \in Chats :
            (pc'[c] # pc[c] /\ ~C14_Switches(c))
            => conversation_mode' = conversation_mode
    ]_vars

\* In the conversation mode a "transkribieren" with stored audio has been
\* answered and a voice-handling cycle has ended with the apology; the mode
\* is still "conversation".
C14_Witness ==
    \E c, d \in Chats :
        /\ conversation_mode = "conversation"
        /\ C9_Case(ev[c]) /\ pc[c] = "done"
        /\ VoiceCycle(d) /\ pc[d] = "done" /\ outcome[d] = "apology"

----------------------------------------------------------------------------
(* C15: last_audio_response is None exactly as long as no synthesis call    *)
(* has returned a buffer, and otherwise is the buffer returned by the last  *)
(* synthesis call that returned one; once it holds a buffer no step makes   *)
(* it None again.                                                           *)

C15_LastSynthesis ==
    /\ last_audio_response = hist.synthesis.audio
    /\ last_audio_response = None <=> hist.synthesis.chat = None

C15_NeverCleared == last_audio_response # None => last_audio_response' # None

C15_StoredAudio == []C15_LastSynthesis /\ [][C15_NeverCleared]_vars

\* Chat c's cycle synthesized a buffer, chat d's cycle then synthesized
\* another one, and d's "transkribieren" has been answered: the stored buffer
\* is d's.
C15_Witness ==
    \E c, d \in Chats :
        /\ VoiceCycle(c)
        /\ loc[c].audio_response \notin {None, last_audio_response}
        /\ C9_Case(ev[d]) /\ pc[d] = "done" /\ Len(sent[d]) = 1
        /\ hist.synthesis.chat = d
        /\ last_audio_response = ev[d].stored_before

----------------------------------------------------------------------------
(* C16: when the transcription call of "transkribieren" (stored audio       *)
(* present) raises, the exception leaves handle_message: the handler ends   *)
(* in error_handler, nothing is sent to the chat, and the step in which the *)
(* call raises changes neither the mode nor the stored audio.               *)

C16_Case(c) ==
    /\ C9_Case(ev[c])
    /\ Len(calls[c]) = 1
    /\ calls[c][1].res = Raised

C16_Silent ==
    \A c \in Chats :
        C16_Case(c)
        => /\ pc[c] = "done"
           /\ outcome[c] = "uncaught"
           /\ sent[c] = <<>>
           /\ deleted[c] = {}

C16_Frame ==
    \A c \in Chats :
        (C9_Case(ev[c]) /\ pc[c] = "m_transcribe" /\ pc'[c] = "done"
           /\ calls'[c][1].res = Raised)
        => UNCHANGED <<Shared, sent, deleted>>

C16_UncaughtTextFailure == []C16_Silent /\ [][C16_Frame]_vars

\* The transcription of the stored audio has raised, with the mode switched
\* and the audio stored before.
C16_Witness ==
    \E c \in Chats :
        /\ C16_Case(c)
        /\ outcome[c] = "uncaught"
        /\ conversation_mode = "conversation"
        /\ last_audio_response = ev[c].stored_before

----------------------------------------------------------------------------
(* C18: the only step of a voice cycle that changes last_audio_response is  *)
(* the successful return of that cycle's synthesis call; so a cycle that    *)
(* fails in transcription, in the first extraction, in generation or in     *)
(* synthesis has changed nothing of the stored audio.                       *)

C18_Step(c) == pc'[c] # pc[c] /\ (VoiceCycle(c) \/ ev'[c].kind = "voice")

C18_SynthesisReturned(c) ==
    LET last == calls'[c][Len(calls'[c])]
    IN  /\ pc[c] \in {"d_synthesize", "c_synthesize"}
        /\ last.fn = "synthesize"
        /\ last.res \in AudioBuffers
        /\ last_audio_response' = last.res

\* The cycle has failed before its synthesis call returned a buffer.
C18_FailedEarly(c) ==
    /\ VoiceCycle(c)
    /\ SomeCallRaised(c)
    /\ \A i \in 1..Len(calls[c]) :
           calls[c][i].fn = "synthesize" => calls[c][i].res \notin AudioBuffers

C18_OverwriteOnlyAfterSynthesis ==
    [][\A c \in Chats :
         /\ (C18_Step(c) /\ last_audio_response' # last_audio_response)
            => C18_SynthesisReturned(c)
         /\ (C18_Step(c) /\ C18_FailedEarly(c)')
            => last_audio_response' = last_audio_response
    ]_vars

\* A cycle whose synthesis call raised has sent the apology, and the audio
\* stored by an earlier cycle is still there.
C18_Witness ==
    \E c \in Chats :
        /\ C18_FailedEarly(c)
        /\ outcome[c] = "apology"
        /\ calls[c][Len(calls[c])].fn = "synthesize"
        /\ last_audio_response \in AudioBuffers

----------------------------------------------------------------------------
(* C19: every voice attachment sent in a cycle is the buffer that cycle's   *)
(* own synthesis call returned, and that call was given the reply that the  *)
(* cycle's own generation call returned, whatever last_audio_response holds *)
(* when the attachment is sent.                                             *)

C19_CallOf(c, fn) ==
    calls[c][CHOOSE i \in 1..Len(calls[c]) : calls[c][i].fn = fn]

C19_OwnAudio ==
    \A c \in Chats :
        \A i \in 1..Len(sent[c]) :
            sent[c][i].kind = "voice"
            => /\ loc[c].flow \in {"default", "conversation"}
               /\ Count(c, "synthesize") = 1
               /\ Count(c, "generate") = 1
               /\ C19_CallOf(c, "synthesize").res \in AudioBuffers
               /\ sent[c][i].body = <<C19_CallOf(c, "synthesize").res>>
               /\ C19_CallOf(c, "synthesize").arg = C19_CallOf(c, "generate").res
               /\ C19_CallOf(c, "generate").res \in Responses

\* A Default-mode cycle has sent its attachment after another cycle's
\* synthesis overwrote the shared field with a different buffer.
C19_Witness ==
    \E c, d \in Chats :
        /\ c # d
        /\ loc[c].flow = "default"
        /\ \E i \in 1..Len(sent[c]) :
               /\ sent[c][i].kind = "voice"
               /\ sent[c][i].body # <<last_audio_response>>
        /\ hist.synthesis.chat = d

----------------------------------------------------------------------------
(* C20: the flow of a voice cycle is the one of the mode held at the step   *)
(* at which the cycle's transcription call returns; from then on the cycle  *)
(* stays in that flow whatever the mode becomes, and its adapter calls and  *)
(* its messages are those of that one flow.                                 *)

\* The awaits of each mode's flow, the delete that precedes it included.
C20_Steps(mode) ==
    CASE mode = "default" ->
           {"v_delete_default", "d_notice", "d_extract_transcript", "d_generate",
            "d_synthesize", "d_send_transcript", "d_delete", "d_voice",
            "d_extract_response", "d_reply"}
      [] mode = "conversation" ->
           {"v_delete_conversation", "c_generate", "c_synthesize", "c_voice",
            "c_reply"}
      [] mode = "transcription" -> {"v_delete_transcription", "t_reply"}

C20_CallsOf(mode) ==
    CASE mode = "default" ->
           <<"transcribe", "extract", "generate", "synthesize", "extract">>
      [] mode = "conversation" -> <<"transcribe", "generate", "synthesize">>
      [] mode = "transcription" -> <<"transcribe">>

C20_MessagesOf(mode) ==
    CASE mode = "default" ->
           {"processing_response", "frage_transkription", "voice",
            "antwort_transkription"}
      [] mode = "conversation" -> {"voice", "transkription"}
      [] mode = "transcription" -> {"transcription"}

C20_OneFlow ==
    \A c \in Chats :
        VoiceCycle(c)
        => IF loc[c].flow = None
           THEN /\ pc[c] \in {"v_notice", "v_download", "v_transcribe",
                              "v_apology", "done"}
                /\ Len(calls[c]) <= 1
                /\ \A i \in 1..Len(sent[c]) :
                       sent[c][i].kind \in {"processing_voice", "apology"}
           ELSE /\ loc[c].flow \in Modes
                /\ pc[c] \in C20_Steps(loc[c].flow) \cup {"v_apology", "done"}
                /\ IsPrefix(Fns(c), C20_CallsOf(loc[c].flow))
                /\ \A i \in 1..Len(sent[c]) :
                       sent[c][i].kind \in C20_MessagesOf(loc[c].flow)
                                           \cup {"processing_voice", "apology"}

C20_Dispatch ==
    \A c \in Chats :
        /\ (pc[c] = "v_transcribe" /\ pc'[c] \notin {"v_transcribe", "v_apology"})
           => /\ loc'[c].flow = conversation_mode
              /\ pc'[c] \in C20_Steps(conversation_mode)
        /\ (VoiceCycle(c) /\ loc[c].flow # None /\ pc'[c] # "idle")
           => loc'[c].flow = loc[c].flow

C20_ModeReadOnce == []C20_OneFlow /\ [][C20_Dispatch]_vars

\* The mode was "default" when the transcription started, "conversation"
\* when it returned, and is "default" again now that the conversation flow
\* has completed.
C20_Witness ==
    \E c \in Chats :
        /\ VoiceCycle(c)
        /\ loc[c].mode_at_call = "default"
        /\ loc[c].flow = "conversation"
        /\ conversation_mode = "default"
        /\ pc[c] = "done" /\ outcome[c] = "completed"
        /\ Fns(c) = C20_CallsOf("conversation")

----------------------------------------------------------------------------
(* C17: when provider and platform calls may raise and every awaited call   *)
(* eventually returns or raises, every voice cycle ends: with its flow      *)
(* completed, with the apology sent, or (only when the reply_text of the    *)
(* apology itself raises) with the exception logged by error_handler. No    *)
(* adapter call follows one that raised, and none is made twice but the     *)
(* extraction of the full analysis.                                         *)

C17_Ended(c) == pc[c] = "done"

\* The statement without the third ending.
C17_CompletedOrApology ==
    \A c \in Chats :
        (VoiceCycle(c) /\ C17_Ended(c)) => outcome[c] \in {"completed", "apology"}

C17_Outcomes ==
    \A c \in Chats :
        (VoiceCycle(c) /\ C17_Ended(c))
        => /\ outcome[c] \in {"completed", "apology", "uncaught"}
           /\ outcome[c] = "apology"
              <=> (sent[c] # <<>> /\ sent[c][Len(sent[c])].kind = "apology")
           /\ outcome[c] = "completed" => NoCallRaised(c)

C17_NoRetry ==
    \A c \in Chats :
        VoiceCycle(c)
        => /\ \A i \in 1..(Len(calls[c]) - 1) : calls[c][i].res \notin {Raised, Pending}
           /\ \A fn \in {"transcribe", "generate", "synthesize"} : Count(c, fn) <= 1
           /\ Count(c, "extract") <= 2

C17_UncaughtOnlyFromApology ==
    \A c \in Chats :
        (VoiceCycle(c) /\ outcome'[c] = "uncaught" /\ outcome[c] # "uncaught")
        => pc[c] = "v_apology"

C17_CycleEnds ==
    /\ \A c \in Chats : VoiceCycle(c) ~> C17_Ended(c)
    /\ [](C17_Outcomes /\ C17_NoRetry)
    /\ [][C17_UncaughtOnlyFromApology]_vars

\* A cycle has ended in error_handler: its delete raised after the
\* transcription returned, and then the reply_text of the apology raised.
C17_Witness ==
    \E c \in Chats :
        /\ VoiceCycle(c) /\ C17_Ended(c)
        /\ outcome[c] = "uncaught"
        /\ loc[c].flow # None
        /\ NoCallRaised(c)
        /\ Len(sent[c]) = 1

====
